---------------------------- MODULE Spec2Model ----------------------------
(***************************************************************************)
(* vec2js: functions on two-dimensional vectors kept as JavaScript arrays  *)
(* of two numbers, the binary ones wrapped by lodash.curryright.           *)
(*                                                                         *)
(* Numbers.  A Scalar is a real number.  The model computes with exact     *)
(* reals of the shapes the library produces from rational inputs:          *)
(*   <<"fin", p, q, n>>   (p/q) * sqrt(n), q > 0, gcd(p,q) = 1, n square   *)
(*                        free (n = 1: a rational; zero is <<fin,0,1,1>>)  *)
(*   <<"pi", p, q, 1>>    (p/q) * pi, an angle in radians                  *)
(*   <<"acos", p, q, n>>  Math.acos of (p/q) * sqrt(n), kept symbolic      *)
(*   <<"inf", s, 0, 1>>   s * Infinity                                     *)
(*   <<"nan", 0, 0, 1>>   NaN                                              *)
(*   <<"off", 0, 0, 0>>   a real outside these shapes (never produced by   *)
(*                        the calls the specifications make)               *)
(* Rounding of IEEE doubles and the sign of zero are not modelled: 0 and   *)
(* -0 are one number, as they are for ==, === and assert.notDeepEqual.     *)
(***************************************************************************)
EXTENDS Integers, Sequences, FiniteSets, TLC

VARIABLES
    heap,     \* the arrays that exist: heap[r] is the pair array r holds
    fns,      \* the functions one-argument calls returned: fns[f].fn, with
              \* the argument given (arg) and its value then (was), as history
    last,     \* the call made by the latest step, or Idle
    threw,    \* the functions of fns that have thrown so far (history)
    va, vb,   \* calculator: the two input vectors
    pc,       \* calculator: the expression evaluated so far
    r1, r2    \* calculator: the inner and the outer call's result

vars == <<heap, fns, last, threw, va, vb, pc, r1, r2>>

---------------------------------------------------------------------------
(* Bounds *)

MaxCoord == 1
MaxArrays == 3
MaxFns == 1
MaxCalcCoord == 3
MaxTurn == 1

---------------------------------------------------------------------------
(* Scalars: exact arithmetic *)

Abs(i) == IF i < 0 THEN -i ELSE i

Sign(i) == IF i < 0 THEN -1 ELSE IF i = 0 THEN 0 ELSE 1

RECURSIVE Gcd(_, _)
Gcd(a, b) == IF b = 0 THEN a ELSE Gcd(b, a % b)

\* The largest s with s*s dividing k (k >= 1).
SquarePart(k) ==
    LET roots == {s \in 1..k : s * s <= k /\ k % (s * s) = 0}
    IN  CHOOSE s \in roots : \A t \in roots : t <= s

NaN == <<"nan", 0, 0, 1>>
Inf(s) == <<"inf", s, 0, 1>>
Off == <<"off", 0, 0, 0>>

\* (p/q) * sqrt(n) in lowest terms, for q # 0 and n >= 0.
Fin(p, q, n) ==
    IF p = 0 \/ n = 0 THEN <<"fin", 0, 1, 1>>
    ELSE LET s == SquarePart(n)
             pp == p * s * Sign(q)
             qq == Abs(q)
             g == Gcd(Abs(pp), qq)
         IN  <<"fin", pp \div g, qq \div g, n \div (s * s)>>

Num(i) == Fin(i, 1, 1)
Zero == Num(0)
One == Num(1)

IsRational(x) == x[1] = "fin" /\ x[4] = 1
IsNumber(x) == Len(x) = 4 /\ x[1] \in {"fin", "pi", "acos", "inf", "nan"}

\* The sign of a number that has one.
Sgn(x) == Sign(x[2])

\* JavaScript's unary minus.
Neg(x) ==
    CASE x[1] = "fin" -> <<"fin", -x[2], x[3], x[4]>>
      [] x[1] = "pi"  -> <<"pi", -x[2], x[3], x[4]>>
      [] x[1] = "inf" -> Inf(-x[2])
      [] x[1] = "nan" -> NaN
      [] OTHER        -> Off

\* JavaScript's x + y.
Add(x, y) ==
    CASE x[1] = "nan" \/ y[1] = "nan" -> NaN
      [] x[1] = "off" \/ y[1] = "off" -> Off
      [] x[1] = "inf" /\ y[1] = "inf" -> IF x[2] = y[2] THEN x ELSE NaN
      [] x[1] = "inf" -> x
      [] y[1] = "inf" -> y
      [] x = Zero -> y
      [] y = Zero -> x
      [] x[1] = "fin" /\ y[1] = "fin" /\ x[4] = y[4] ->
            Fin(x[2] * y[3] + y[2] * x[3], x[3] * y[3], x[4])
      [] x[1] = "pi" /\ y[1] = "pi" ->
            LET p == x[2] * y[3] + y[2] * x[3]
                q == x[3] * y[3]
                g == Gcd(Abs(p), q)
            IN  IF p = 0 THEN Zero ELSE <<"pi", p \div g, q \div g, 1>>
      [] OTHER -> Off

\* JavaScript's x - y.
Sub(x, y) == Add(x, Neg(y))

\* JavaScript's x * y.
Mul(x, y) ==
    CASE x[1] = "nan" \/ y[1] = "nan" -> NaN
      [] x[1] = "off" \/ y[1] = "off" -> Off
      [] x[1] = "inf" \/ y[1] = "inf" ->
            IF x = Zero \/ y = Zero THEN NaN ELSE Inf(Sgn(x) * Sgn(y))
      [] x = Zero \/ y = Zero -> Zero
      [] x[1] = "fin" /\ y[1] = "fin" ->
            Fin(x[2] * y[2], x[3] * y[3], x[4] * y[4])
      [] x[1] = "pi" /\ IsRational(y) ->
            LET p == x[2] * y[2]
                q == x[3] * y[3]
                g == Gcd(Abs(p), q)
            IN  <<"pi", p \div g, q \div g, 1>>
      [] y[1] = "pi" /\ IsRational(x) ->
            LET p == x[2] * y[2]
                q == x[3] * y[3]
                g == Gcd(Abs(p), q)
            IN  <<"pi", p \div g, q \div g, 1>>
      [] OTHER -> Off

\* JavaScript's x / y: 1/0 is Infinity, 0/0 is NaN.
Div(x, y) ==
    CASE y[1] = "nan" -> NaN
      [] y[1] = "inf" -> Mul(x, Zero)
      [] y = Zero -> Mul(x, Inf(1))
      [] y[1] = "fin" -> Mul(x, Fin(y[3], y[2] * y[4], y[4]))
      [] OTHER -> Off

\* Math.sqrt.
Sqrt(x) ==
    CASE x[1] = "nan" -> NaN
      [] x[1] = "inf" -> IF x[2] > 0 THEN x ELSE NaN
      [] IsRational(x) -> IF x[2] < 0 THEN NaN ELSE Fin(1, x[3], x[2] * x[3])
      [] OTHER -> Off

\* Math.acos: the exact values at 1, 0, -1, sqrt(2)/2, 1/2, sqrt(3)/2 and
\* their negatives; NaN outside [-1, 1]; symbolic elsewhere.
Acos(x) ==
    CASE x[1] \in {"nan", "inf"} -> NaN
      [] x[1] # "fin" -> Off
      [] x[2] * x[2] * x[4] > x[3] * x[3] -> NaN
      [] x = One -> Zero
      [] x = Zero -> <<"pi", 1, 2, 1>>
      [] x = Num(-1) -> <<"pi", 1, 1, 1>>
      [] x = Fin(1, 2, 2) -> <<"pi", 1, 4, 1>>
      [] x = Fin(-1, 2, 2) -> <<"pi", 3, 4, 1>>
      [] x = Fin(1, 2, 1) -> <<"pi", 1, 3, 1>>
      [] x = Fin(-1, 2, 1) -> <<"pi", 2, 3, 1>>
      [] x = Fin(1, 2, 3) -> <<"pi", 1, 6, 1>>
      [] x = Fin(-1, 2, 3) -> <<"pi", 5, 6, 1>>
      [] OTHER -> <<"acos", x[2], x[3], x[4]>>

\* The eighth of a turn an angle names (0..7), or -1 when it names none.
Octant(t) ==
    CASE t = Zero -> 0
      [] t[1] = "pi" /\ 4 % t[3] = 0 -> (t[2] * (4 \div t[3])) % 8
      [] OTHER -> -1

\* Math.cos at the multiples of pi/4.
Cos(t) ==
    LET k == Octant(t)
    IN  CASE t[1] \in {"nan", "inf"} -> NaN
          [] k = 0 -> One
          [] k = 4 -> Num(-1)
          [] k \in {2, 6} -> Zero
          [] k \in {1, 7} -> Fin(1, 2, 2)
          [] k \in {3, 5} -> Fin(-1, 2, 2)
          [] OTHER -> Off

\* Math.sin at the multiples of pi/4.
Sin(t) ==
    LET k == Octant(t)
    IN  CASE t[1] \in {"nan", "inf"} -> NaN
          [] k \in {0, 4} -> Zero
          [] k = 2 -> One
          [] k = 6 -> Num(-1)
          [] k \in {1, 3} -> Fin(1, 2, 2)
          [] k \in {5, 7} -> Fin(-1, 2, 2)
          [] OTHER -> Off

---------------------------------------------------------------------------
(* The library.  A Vec2 value is the pair <<x, y>> of its components; a     *)
(* call returns its value, or AssertionError when an assertion throws.     *)

AssertionError == <<"AssertionError">>

Threw(r) == r = AssertionError

\* Legacy assert's loose comparison of one component with the number 0: a
\* number is compared by ==, a function is never == 0.
LooseEqZero(x) == x = Zero

\* assert.notDeepEqual(a, [0, 0]) throws: a is a two-element array whose
\* components are both == 0.
DeepEqualZero(a) == LooseEqZero(a[1]) /\ LooseEqZero(a[2])

\* a[i] for i = 0, 1 (here 1, 2): a component of an array; undefined, which
\* arithmetic turns into NaN, when a is a number.
At(a, i) == IF Len(a) = 2 THEN a[i] ELSE NaN

\* A value used as a number: a two-element array converts to NaN.
ToNumber(b) == IF Len(b) = 4 THEN b ELSE NaN

zero == <<Zero, Zero>>

negate(a) == <<Neg(a[1]), Neg(a[2])>>

\* add with a wrong index in its second component.
addWrongIndex(a, b) == <<Add(a[1], b[1]), Add(a[2], b[1])>>

add(a, b) == <<Add(a[1], b[1]), Add(a[2], b[2])>>

\* sub with its operands exchanged.
subSwapped(a, b) == <<Sub(b[1], a[1]), Sub(b[2], a[2])>>

sub(a, b) == <<Sub(a[1], b[1]), Sub(a[2], b[2])>>

scale(a, b) == <<Mul(At(a, 1), ToNumber(b)), Mul(At(a, 2), ToNumber(b))>>

dot(a, b) == Add(Mul(a[1], b[1]), Mul(a[2], b[2]))

length(a) == Sqrt(dot(a, a))

magnitude(a) == length(a)

norm(a) == length(a)

unit(a) ==
    IF DeepEqualZero(a) THEN AssertionError
    ELSE scale(a, Div(One, length(a)))

\* normal without the negation: a reflection, not a quarter turn.
normalNoNegate(a) == unit(<<a[2], a[1]>>)

normal(a) == unit(<<a[2], Neg(a[1])>>)

distance(a, b) == length(sub(a, b))

\* angle without its second assertion.
angleOneAssert(a, b) ==
    IF DeepEqualZero(a) THEN AssertionError
    ELSE Acos(Div(dot(a, b), Mul(length(a), length(b))))

angle(a, b) ==
    IF DeepEqualZero(a) THEN AssertionError
    ELSE IF DeepEqualZero(b) THEN AssertionError
    ELSE Acos(Div(dot(a, b), Mul(length(a), length(b))))

rotate(a, t) ==
    LET c == Cos(ToNumber(t))
        s == Sin(ToNumber(t))
    IN  <<Sub(Mul(At(a, 1), c), Mul(At(a, 2), s)),
          Add(Mul(At(a, 1), s), Mul(At(a, 2), c))>>

\* project dividing by the length of b, not by its square.
projectByLength(a, b) ==
    IF DeepEqualZero(b) THEN AssertionError
    ELSE scale(b, Div(dot(a, b), length(b)))

project(a, b) ==
    IF DeepEqualZero(b) THEN AssertionError
    ELSE scale(b, Div(dot(a, b), dot(b, b)))

fromPolar(p) == rotate(<<p[2], Zero>>, p[1])

\* The functions handed to curry, by name.
Curried == {"add", "sub", "scale", "dot", "distance", "angle", "rotate", "project"}

\* Those whose second parameter is a Scalar.
ScalarSecond == {"scale", "rotate"}

\* The body of the function curry wraps, applied to both parameters.
Func(op, a, b) ==
    CASE op = "add"      -> add(a, b)
      [] op = "sub"      -> sub(a, b)
      [] op = "scale"    -> scale(a, b)
      [] op = "dot"      -> dot(a, b)
      [] op = "distance" -> distance(a, b)
      [] op = "angle"    -> angle(a, b)
      [] op = "rotate"   -> rotate(a, b)
      [] op = "project"  -> project(a, b)

\* The other ordering (lodash.curry's): held arguments first.
LeftOrder(held, args) == held \o args

\* curryRight's ordering of the arguments: those of the present call come
\* first, those held from earlier calls after them.
RightOrder(held, args) == args \o held

\* An argument is a number, a Vec2 value, or a reference <<"ref", r, 0, 0>>
\* to the array r of the heap h; a function reads an array's components
\* when it runs.
Ref(r) == <<"ref", r, 0, 0>>

IsRef(x) == Len(x) = 4 /\ x[1] = "ref"

Deref(h, x) == IF IsRef(x) THEN h[x[2]] ELSE x

\* A call of a curried function that holds `held` with arguments `args`
\* (one or two in all): with both parameters supplied the wrapped function
\* runs on them; with one, the call returns a function <<"fn", op, held>>
\* that keeps the argument it was given and waits for the other.
curry(h, op, held, args) ==
    LET all == RightOrder(held, args)
    IN  IF Len(all) >= 2 THEN Func(op, Deref(h, all[1]), Deref(h, all[2]))
        ELSE <<"fn", op, all>>

IsVec(x) == Len(x) = 2

\* toPolar calls angle with one argument.
toPolar(h, a) == <<curry(h, "angle", <<>>, <<a>>), length(Deref(h, a))>>

\* The functions of one parameter, by name.
Unary == {"negate", "length", "magnitude", "norm", "unit", "normal",
          "fromPolar", "toPolar"}

Func1(h, op, a) ==
    CASE op = "negate"    -> negate(Deref(h, a))
      [] op = "length"    -> length(Deref(h, a))
      [] op = "magnitude" -> magnitude(Deref(h, a))
      [] op = "norm"      -> norm(Deref(h, a))
      [] op = "unit"      -> unit(Deref(h, a))
      [] op = "normal"    -> normal(Deref(h, a))
      [] op = "fromPolar" -> fromPolar(Deref(h, a))
      [] op = "toPolar"   -> toPolar(h, a)

---------------------------------------------------------------------------
(* A caller's session: arrays it creates and writes, and its calls.        *)
(* The session is bounded: the caller calls the library while fewer than   *)
(* MaxArrays arrays exist, makes its fully applied calls before it holds a *)
(* partially applied function, holds at most MaxFns of them, and passes    *)
(* arrays of rationals (for fromPolar, a quarter-turn angle and a length). *)

\* k quarter turns, in radians.
Angle(k) == Mul(<<"pi", 1, 2, 1>>, Num(k))

Coords == {Num(i) : i \in 0..MaxCoord}
Scalars == {Num(i) : i \in (0 - MaxCoord)..MaxCoord}
Angles == {Angle(k) : k \in 0..MaxTurn}
Vecs == Coords \X Coords
Polars == {<<Angle(k), One>> : k \in 1..MaxTurn}

\* A cartesian argument the caller passes: an array of two rationals.
IsCartesian(v) == IsVec(v) /\ IsNumber(v[1]) /\ IsNumber(v[2])
                  /\ IsRational(v[1]) /\ IsRational(v[2])

\* A polar argument: a multiple of a quarter turn and a rational length.
IsPolar(v) == IsVec(v) /\ IsNumber(v[1]) /\ IsNumber(v[2])
              /\ Octant(v[1]) >= 0 /\ IsRational(v[2])

Idle == [op |-> "none", mode |-> "none", f |-> 0, args |-> <<>>,
         vals |-> <<>>, out |-> Zero]

\* An operation that writes its result into its first argument.
StoreInPlace(h, args, v) ==
    IF Len(args) >= 1 /\ IsRef(args[1])
    THEN [heap |-> [h EXCEPT ![args[1][2]] = v], out |-> args[1]]
    ELSE [heap |-> Append(h, v), out |-> Ref(Len(h) + 1)]

\* `return [x, y]`: the array literal constructs a new array.
Store(h, args, v) == [heap |-> Append(h, v), out |-> Ref(Len(h) + 1)]

\* What a call leaves behind: a Vec2 result is a new array; a number or an
\* exception leaves the heap as it was.
Return(h, args, v) ==
    IF IsVec(v) THEN Store(h, args, v) ELSE [heap |-> h, out |-> v]

\* A wrapper that copies the argument it is given.
CaptureCopy(h, x) == Deref(h, x)

\* The function a one-argument call returns keeps the argument it was
\* given: for an array, the array itself.
Capture(h, x) == x

\* A wrapper that gives up its held argument when it is called.
AfterCallSpent(fs, f, args) == [fs EXCEPT ![f].fn = <<"fn", fs[f].fn[2], <<>>>>]

\* A wrapper is not changed by being called: it can be called again.
AfterCall(fs, f, args) == fs

Init ==
    /\ heap = <<>>
    /\ fns = <<>>
    /\ last = Idle
    /\ threw = {}
    /\ va = zero /\ vb = zero /\ pc = "off" /\ r1 = Zero /\ r2 = Zero

CalcIdle == UNCHANGED <<va, vb, pc, r1, r2>>

\* The caller creates an array.
CallerNew(v) ==
    /\ Len(heap) < MaxArrays
    /\ heap' = Append(heap, v)
    /\ last' = Idle
    /\ UNCHANGED <<fns, threw>>
    /\ CalcIdle

\* The caller assigns to a component of an array: a[i] = s.
CallerWrite(r, i, s) ==
    /\ IsCartesian(heap[r])
    /\ heap[r][i] # s
    /\ heap' = [heap EXCEPT ![r][i] = s]
    /\ last' = Idle
    /\ UNCHANGED <<fns, threw>>
    /\ CalcIdle

\* One call of the library: what it returns, and the record of it.
Call(op, mode, f, args, v) ==
    LET ret == Return(heap, args, v)
    IN  /\ Len(heap) < MaxArrays
        /\ heap' = ret.heap
        /\ last' = [op |-> op, mode |-> mode, f |-> f, args |-> args,
                    vals |-> [i \in DOMAIN args |-> Deref(heap, args[i])],
                    out |-> ret.out]
        /\ threw' = IF Threw(v) /\ mode = "cont" THEN threw \cup {f} ELSE threw
        /\ CalcIdle

\* zero()
CallZero ==
    /\ fns = <<>>
    /\ Call("zero", "full", 0, <<>>, zero)
    /\ UNCHANGED fns

\* op(a) for a function of one parameter.
CallUnary(op, a) ==
    /\ fns = <<>>
    /\ IF op = "fromPolar" THEN IsPolar(heap[a]) ELSE IsCartesian(heap[a])
    /\ Call(op, "full", 0, <<Ref(a)>>, Func1(heap, op, Ref(a)))
    /\ UNCHANGED fns

\* op(a, b) for a curried function, both arguments at once.
CallFull(op, a, b) ==
    /\ fns = <<>>
    /\ Call(op, "full", 0, <<a, b>>, curry(heap, op, <<>>, <<a, b>>))
    /\ UNCHANGED fns

\* f = op(x): a curried function called with one argument.
CallPartial(op, x) ==
    /\ Len(fns) < MaxFns
    /\ Len(heap) < MaxArrays
    /\ LET fn == curry(heap, op, <<>>, <<Capture(heap, x)>>)
       IN  /\ fns' = Append(fns, [fn |-> fn, arg |-> x, was |-> Deref(heap, x)])
           /\ last' = [op |-> op, mode |-> "partial", f |-> Len(fns) + 1,
                       args |-> <<x>>, vals |-> <<Deref(heap, x)>>,
                       out |-> <<"fn", op, Len(fns) + 1>>]
    /\ UNCHANGED <<heap, threw>>
    /\ CalcIdle

\* f(y): the function a one-argument call returned, called with the other.
CallCont(f, y) ==
    /\ Call(fns[f].fn[2], "cont", f, <<y, fns[f].arg>>,
            curry(heap, fns[f].fn[2], fns[f].fn[3], <<y>>))
    /\ fns' = AfterCall(fns, f, <<y>>)

\* The arguments of the caller's type for each parameter.
CartesianRefs == {Ref(r) : r \in {q \in 1..Len(heap) : IsCartesian(heap[q])}}

FirstArgs(op) == CartesianRefs

SecondArgs(op) ==
    CASE op = "scale" -> Scalars
      [] op = "rotate" -> Angles
      [] OTHER -> CartesianRefs

Next ==
    \/ \E v \in Vecs \cup Polars : CallerNew(v)
    \/ \E r \in 1..Len(heap), i \in 1..2, s \in Coords : CallerWrite(r, i, s)
    \/ CallZero
    \/ \E op \in Unary, a \in 1..Len(heap) : CallUnary(op, a)
    \/ \E op \in Curried : \E a \in FirstArgs(op), b \in SecondArgs(op) :
          CallFull(op, a, b)
    \/ \E op \in Curried : \E x \in SecondArgs(op) : CallPartial(op, x)
    \/ \E f \in 1..Len(fns) : \E y \in FirstArgs(fns[f].fn[2]) : CallCont(f, y)

Spec == Init /\ [][Next]_vars

---------------------------------------------------------------------------
(* A calculator: two input vectors and the library's functions applied to  *)
(* them, one call at a time, each fully applied.                           *)

CalcCoords == {Num(i) : i \in (0 - MaxCalcCoord)..MaxCalcCoord}
CalcVecs == CalcCoords \X CalcCoords

HeapIdle == UNCHANGED <<heap, fns, last, threw>>

InitCalc ==
    /\ heap = <<>> /\ fns = <<>> /\ last = Idle /\ threw = {}
    /\ va \in CalcVecs
    /\ vb \in CalcVecs
    /\ pc = "start"
    /\ r1 = Zero
    /\ r2 = Zero

\* r1 = op(va, vb)
Eval2(op) ==
    /\ pc = "start"
    /\ r1' = curry(<<>>, op, <<>>, <<va, vb>>)
    /\ pc' = op
    /\ UNCHANGED <<va, vb, r2>>
    /\ HeapIdle

\* r1 = op(va)
Eval1(op) ==
    /\ pc = "start"
    /\ r1' = Func1(<<>>, op, va)
    /\ pc' = op
    /\ UNCHANGED <<va, vb, r2>>
    /\ HeapIdle

\* r2 = op(r1, vb), after r1 = inner(va, vb) returned
EvalOuter(inner, op, done) ==
    /\ pc = inner
    /\ ~Threw(r1)
    /\ r2' = curry(<<>>, op, <<>>, <<r1, vb>>)
    /\ pc' = done
    /\ UNCHANGED <<va, vb, r1>>
    /\ HeapIdle

EvalSub == Eval2("sub")
EvalAdd == EvalOuter("sub", "add", "sub;add")
EvalProject == Eval2("project")
EvalProjectAgain == EvalOuter("project", "project", "project;project")
EvalAngle == Eval2("angle")
EvalUnit == Eval1("unit")
EvalNormal == Eval1("normal")

NextCalc ==
    \/ EvalSub
    \/ EvalAdd
    \/ EvalProject
    \/ EvalProjectAgain
    \/ EvalAngle
    \/ EvalUnit
    \/ EvalNormal

SpecCalc == InitCalc /\ [][NextCalc]_vars

---------------------------------------------------------------------------
(* Properties *)

\* The value the latest call returned: the array's contents for a Vec2.
OutVal == IF IsRef(last.out) THEN heap[last.out[2]] ELSE last.out

\* In f = op(x); f(y): the values of y and of x when f(y) ran.
Y == last.vals[1]
X == last.vals[2]

Symmetric == {"add", "dot", "distance", "angle"}

\* C1 as claimed: for the curried operations on two vectors, op(a)(b)
\* returns what op(a, b) returns; sub(a)(b) is a - b.
C1_PartialKeepsOrder ==
    (last.mode = "cont" /\ last.op \notin ScalarSecond)
        => OutVal = curry(heap, last.op, <<>>, <<X, Y>>)

\* C1 amended: op(a)(b) returns what op(b, a) returns for every curried
\* operation, which for add, dot, distance and angle is also what op(a, b)
\* returns; sub(a)(b) is b - a componentwise.
C1_PartialBindsLast ==
    last.mode = "cont" =>
        /\ OutVal = curry(heap, last.op, <<>>, <<Y, X>>)
        /\ last.op \in Symmetric => OutVal = curry(heap, last.op, <<>>, <<X, Y>>)
        /\ last.op = "sub" => OutVal = <<Sub(Y[1], X[1]), Sub(Y[2], X[2])>>

\* sub(a)(b) was called with a # b and returned b - a, which is not a - b.
C1_Witness ==
    /\ last.mode = "cont" /\ last.op = "sub"
    /\ X # Y
    /\ OutVal = <<Sub(Y[1], X[1]), Sub(Y[2], X[2])>>
    /\ OutVal # <<Sub(X[1], Y[1]), Sub(X[2], Y[2])>>

\* C2: for sub, scale, rotate and project the one-argument call supplies
\* the last parameter: scale(s)(v) = v * s, rotate(t)(v) is v turned by t,
\* sub(x)(y) = y - x and project(x)(y) is the projection of y onto x (it
\* throws exactly when x is the zero vector).
C2_OneArgumentIsLastParameter ==
    last.mode = "cont" =>
        /\ last.op = "scale" => OutVal = <<Mul(Y[1], X), Mul(Y[2], X)>>
        /\ last.op = "rotate" => OutVal = rotate(Y, X)
        /\ last.op = "sub" => OutVal = sub(Y, X)
        /\ last.op = "project" =>
              /\ Threw(OutVal) <=> X = zero
              /\ ~Threw(OutVal) => OutVal = scale(X, Div(dot(Y, X), dot(X, X)))

\* scale(s)(v) returned v scaled by s, for s # 1 and v # (0,0).
C2_Witness ==
    /\ last.mode = "cont" /\ last.op = "scale"
    /\ X = Num(-1) /\ Y # zero
    /\ OutVal = negate(Y)

\* C3: unit(v) throws exactly when v = (0,0); angle(a, b) exactly when a or
\* b is (0,0); project(a, b) exactly when b = (0,0), and project((0,0), b)
\* is (0,0) for b # (0,0).
C3_ThrowsExactlyOnZero ==
    /\ pc = "unit" => (Threw(r1) <=> va = zero)
    /\ pc = "angle" => (Threw(r1) <=> (va = zero \/ vb = zero))
    /\ pc = "project" => (Threw(r1) <=> vb = zero)
    /\ (pc = "project" /\ va = zero /\ vb # zero) => r1 = zero

\* angle(a, (0,0)) threw for a # (0,0).
C3_Witness == pc = "angle" /\ va # zero /\ vb = zero /\ Threw(r1)

\* C4 as claimed: every array the library returns holds two numbers, and
\* toPolar(v) returns [the angle of v, length(v)].
C4_ResultsAreScalarPairs ==
    (last.mode = "full" /\ IsRef(last.out)) =>
        /\ IsNumber(OutVal[1]) /\ IsNumber(OutVal[2])
        /\ last.op = "toPolar" => OutVal[2] = length(last.vals[1])

\* C5 as claimed: f = op(x) keeps the value x had: f(y) returns the result
\* for that value whatever the caller writes to x afterwards.
C5_CapturedByValue ==
    last.mode = "cont" =>
        OutVal = curry(heap, last.op, <<>>, <<Y, fns[last.f].was>>)

\* C5 amended: f = op(x) keeps the array x itself: f(y) returns the result
\* for the components x holds when f(y) is called, which is the result for
\* the value x had at op(x) when the caller has not written to x since.
C5_CapturedByReference ==
    last.mode = "cont" =>
        /\ OutVal = curry(heap, last.op, <<>>, <<Y, Deref(heap, fns[last.f].arg)>>)
        /\ Deref(heap, fns[last.f].arg) = fns[last.f].was =>
              OutVal = curry(heap, last.op, <<>>, <<Y, fns[last.f].was>>)

\* f(y) ran after the caller wrote to x, and returned a result that differs
\* from the one for x's value at op(x).
C5_Witness ==
    /\ last.mode = "cont"
    /\ X # fns[last.f].was
    /\ OutVal # curry(heap, last.op, <<>>, <<Y, fns[last.f].was>>)

\* C6: a call leaves every array that existed before it as it was, and a
\* Vec2 it returns is an array that did not exist before the call.
C6_InputsKeptResultsNew ==
    [][last' # Idle =>
          /\ Len(heap') >= Len(heap)
          /\ \A r \in 1..Len(heap) : heap'[r] = heap[r]
          /\ IsRef(last'.out) =>
                /\ last'.out[2] = Len(heap) + 1
                /\ Len(heap') = Len(heap) + 1
                /\ \A i \in 1..Len(last'.args) : last'.args[i] # last'.out
          /\ ~IsRef(last'.out) => heap' = heap]_vars

\* scale(a, 1) returned a's components in an array that is not a, and a is
\* as it was.
C6_Witness ==
    /\ last.op = "scale" /\ last.mode = "full"
    /\ last.vals[2] = One /\ last.vals[1] # zero
    /\ IsRef(last.out) /\ last.out # last.args[1]
    /\ OutVal = last.vals[1]
    /\ heap[last.args[1][2]] = last.vals[1]

\* C7: a call that throws changes no array and no function held by the
\* caller, so every later call returns what its arguments alone determine:
\* f(y) after a throw, of f or of any other call, returns op(y, x).
C7_ThrowChangesNothing ==
    /\ [][Threw(last'.out) => (heap' = heap /\ fns' = fns)]_vars
    /\ [](last.mode = "cont" => OutVal = curry(heap, last.op, <<>>, <<Y, X>>))

\* f(y) returned a value after an earlier call of f threw.
C7_Witness ==
    /\ last.mode = "cont" /\ last.f \in threw
    /\ ~Threw(last.out)

\* C8: add(sub(a, b), b) = a.
C8_AddSubInverse == pc = "sub;add" => r2 = va

\* add(sub(a, b), b) was evaluated for a # b, b # (0,0).
C8_Witness == pc = "sub;add" /\ va # vb /\ vb # zero /\ r1 # va /\ r2 = va

\* C9: for b # (0,0), project(a, b) returns, and project(project(a, b), b)
\* returns the same vector.
C9_ProjectIdempotent ==
    /\ (pc = "project" /\ vb # zero) => ~Threw(r1)
    /\ pc = "project;project" => (~Threw(r2) /\ r2 = r1)

\* project(project(a, b), b) was evaluated where the projection is neither
\* a nor (0,0), and where it is (0,0).
C9_Witness ==
    /\ pc = "project;project" /\ r1 # va /\ r1 # zero /\ r2 = r1
    /\ va[2] # Zero /\ vb[1] # Zero /\ vb[2] # Zero

\* C10: for v # (0,0), normal(v) returns unit((v.y, -v.x)), which is
\* orthogonal to v and of length 1; normal((0,0)) throws.
C10_NormalOrthogonalUnit ==
    pc = "normal" =>
        /\ va = zero <=> Threw(r1)
        /\ va # zero =>
              /\ r1 = unit(<<va[2], Neg(va[1])>>)
              /\ dot(va, r1) = Zero
              /\ length(r1) = One

\* normal(v) returned for a v whose length is irrational.
C10_Witness ==
    /\ pc = "normal" /\ ~Threw(r1)
    /\ ~IsRational(length(va))
    /\ dot(va, r1) = Zero

===========================================================================
